---- MODULE Spec2Model ----
(***************************************************************************)
(* The apnea-diagnosis episode environments of SleepPilot:                 *)
(*   v1      layer2RLdiagnosis-v1/apnea_env.py  (ApneaDetectionEnv)        *)
(*   model2  layer2RLdiagnosis-model-2/apnea_detection_env.py              *)
(* and the DIAGNOSE reward of v1 as a pure function; further the metrics   *)
(* of utils.py, the patient-wise split of data_loader.py, the random draws *)
(* two v1 instances share, SleepEnvironment of layer3rl and the training   *)
(* endpoints of layer3rl/api.py, each under a specification of its own.    *)
(*                                                                         *)
(* Numbers.  A confidence c stands for c / One (One = 10 * ConfGrid), so   *)
(* 0.1 is ConfGrid, 0.5 is 5 * ConfGrid.  A reward r stands for            *)
(* r / RewardOne with RewardOne = 20 * One^2, which makes every reward the *)
(* code computes on that grid an integer.  A timestamp is in seconds.      *)
(* A feature vector is represented by the one number the code reads from   *)
(* it, mean(|features|) / 100 on the confidence grid; the zero vector is 0.*)
(***************************************************************************)
EXTENDS Integers, Sequences, FiniteSets, TLC

\* ------------------------------------------------------------- bounds
ConfGrid == 10
NSamples == 5
NPatients == 2
MaxEpisodeLength == 3
MaxCursor == 4
M2MaxSegments == 3

One == 10 * ConfGrid
RewardOne == 20 * One * One

Max(a, b) == IF a >= b THEN a ELSE b
Min(a, b) == IF a <= b THEN a ELSE b

\* ------------------------------------------------------------- actions
WAIT == 0
DIAGNOSE == 1
ESCALATE == 2
\* what a caller may pass as `action`: the three actions and one other integer
ActionInputs == {WAIT, DIAGNOSE, ESCALATE, 3}

SegmentSeconds == 10

VARIABLES
  variant,                \* which environment class the instance is: "v1", "model2", "sleep" or "none"
  phase,                  \* the episode state of the interface: READY, RUNNING, DONE
  call,                   \* the last call made: [op, action]
  ret,                    \* what the last call gave back
  labels,                 \* v1: self.labels, one per sample
  max_episode_length,     \* v1: self.max_episode_length
  current_patient,        \* v1: self.current_patient (NoPatient: attribute not set)
  current_step,           \* v1: self.current_step
  episode_predictions,    \* v1
  episode_confidences,    \* v1
  episode_rewards,        \* v1
  episode_timestamps,     \* v1
  episode_event_details,  \* v1
  m2_labels,              \* model2: self.labels, one per audio segment
  current_segment_idx,    \* model2
  diagnosed_segments,     \* model2
  escalated,              \* model2
  rw,                     \* the reward function's inputs and results (RewardSpec)
  sv,                     \* the severity score's inputs and results (SeveritySpec)
  ec,                     \* calculate_ece's inputs and result (EceSpec)
  iso,                    \* two v1 instances and numpy's global generator (IsolationSpec)
  sp,                     \* create_patient_wise_splits' inputs and result (SplitSpec)
  user_profiles,          \* api.py: the keys of user_profiles
  trained_agents,         \* api.py: the keys of trained_agents
  training_status,        \* api.py: training_status[u]["status"], "absent" for no entry
  background_tasks,       \* api.py: per user, the training tasks added and not yet run
  task_log,               \* api.py: what the interface has seen of each user
  episode_length,         \* SleepEnvironment: self.episode_length
  time_step,              \* SleepEnvironment: self.time_step
  current_state,          \* SleepEnvironment: self.current_state (temperature, time_step)
  episode_history,        \* SleepEnvironment: len(self.episode_history)
  step_calls              \* SleepEnvironment: the step() calls that returned since reset()

v1vars == <<labels, max_episode_length, current_patient, current_step,
            episode_predictions, episode_confidences, episode_rewards,
            episode_timestamps, episode_event_details>>
m2vars == <<m2_labels, current_segment_idx, diagnosed_segments, escalated>>
\* the variables of the pure functions' specifications
apivars == <<user_profiles, trained_agents, training_status, background_tasks,
             task_log>>
sleepvars == <<episode_length, time_step, current_state, episode_history,
               step_calls>>
\* the variables of the specifications of the other components
extvars == <<iso, sp, apivars, sleepvars>>
purevars == <<rw, sv, ec, extvars>>
vars == <<variant, phase, call, ret, v1vars, m2vars, purevars>>

NoPatient == 0
NoCall == [op |-> "none", action |-> WAIT]
NoRet == [kind |-> "none", obs |-> 0, reward |-> 0,
          terminated |-> FALSE, truncated |-> FALSE]
Returned(obs, reward, terminated, truncated) ==
  [kind |-> "ok", obs |-> obs, reward |-> reward,
   terminated |-> terminated, truncated |-> truncated]
\* the call raised: nothing is returned
Raised == [kind |-> "error", obs |-> 0, reward |-> 0,
           terminated |-> FALSE, truncated |-> FALSE]

\* The interface's episode state, read off what the calls return:
\* RUNNING after a reset that returned, DONE after a step that returned
\* terminated or truncated.  A call that raises leaves it as it was.
PhaseAfterStep(ph, r) ==
  IF r.kind = "ok" /\ ph = "RUNNING" /\ (r.terminated \/ r.truncated)
  THEN "DONE" ELSE ph

\* ===================================================================
\* The DIAGNOSE reward of v1 (apnea_env.py lines 111-127)
\* ===================================================================

\* OverHalf with >= for >
OverHalfInclusive(confidence) == 2 * confidence >= One

\* confidence > 0.5
OverHalf(confidence) == 2 * confidence > One

\* correctness = float(true_label == (confidence > 0.5))
Correctness(confidence, true_label) ==
  IF (true_label = 1) = OverHalf(confidence) THEN 1 ELSE 0

\* calibration_penalty = 0.5 * (confidence - correctness) ** 2
CalibrationPenalty(confidence, correctness) ==
  10 * (confidence - One * correctness) * (confidence - One * correctness)

\* exploration_bonus = 0.1
ExplorationBonus == 2 * One * One

\* the cap of max(reward, -0.5)
RewardFloor == 0 - 10 * One * One

\* DiagnoseReward with the calibration penalty added instead of subtracted
DiagnoseRewardPenaltyAdded(confidence, true_label) ==
  LET correctness == Correctness(confidence, true_label)
      base_reward == correctness * RewardOne
  IN  Max(base_reward + CalibrationPenalty(confidence, correctness)
            + ExplorationBonus,
          RewardFloor)

\* DiagnoseReward capped below at 0.0 instead of -0.5
DiagnoseRewardCapZero(confidence, true_label) ==
  LET correctness == Correctness(confidence, true_label)
      base_reward == correctness * RewardOne
  IN  Max(base_reward - CalibrationPenalty(confidence, correctness)
            + ExplorationBonus,
          0)

\* reward = max(base_reward - calibration_penalty + exploration_bonus, -0.5)
DiagnoseReward(confidence, true_label) ==
  LET correctness == Correctness(confidence, true_label)
      base_reward == correctness * RewardOne
  IN  Max(base_reward - CalibrationPenalty(confidence, correctness)
            + ExplorationBonus,
          RewardFloor)

\* reward = -0.1 of ESCALATE, in both environments
EscalatePenalty == 0 - 2 * One * One

\* ===================================================================
\* v1: data
\* ===================================================================

\* patient_ids as test_implementation.py builds them: patient_{i % n_patients}
PatientIds == [i \in 1..NSamples |-> ((i - 1) % NPatients) + 1]

\* mean(|features[i]|) / 100 of the samples, on the confidence grid
FeaturePattern ==
  <<2 * ConfGrid + 1, 7 * ConfGrid, 4 * ConfGrid, 12 * ConfGrid,
    5 * ConfGrid, ConfGrid \div 2 + 1>>
Features ==
  [i \in 1..NSamples |-> FeaturePattern[((i - 1) % Len(FeaturePattern)) + 1]]

\* patient_list: the patients that own at least one sample (the instance
\* holds len(labels) samples)
PatientList == {PatientIds[i] : i \in 1..Len(labels)}

RECURSIVE MaskFrom(_, _)
\* the sample indices of patient p from index i on, in order (the boolean mask)
MaskFrom(p, i) ==
  IF i > Len(labels) THEN <<>>
  ELSE IF PatientIds[i] = p THEN <<i>> \o MaskFrom(p, i + 1)
  ELSE MaskFrom(p, i + 1)

\* patient_data[p]['indices']
PatientIndices(p) == MaskFrom(p, 1)
\* patient_data[p]['labels']
PatientLabels(p) ==
  [k \in 1..Len(PatientIndices(p)) |-> labels[PatientIndices(p)[k]]]
\* patient_data[p]['features']
PatientFeatures(p) ==
  [k \in 1..Len(PatientIndices(p)) |-> Features[PatientIndices(p)[k]]]
\* len(self.patient_data[p]['features'])
NumSegments(p) == Len(PatientIndices(p))

\* ===================================================================
\* v1: reset and step
\* ===================================================================

\* _get_observation: the segment at the cursor, zeros past the end
GetObservation(p, step) ==
  IF step < NumSegments(p) THEN PatientFeatures(p)[step + 1] ELSE 0

\* _estimate_confidence: np.clip(np.mean(np.abs(features)) / 100, 0.1, 0.9)
EstimateConfidence(p, step) ==
  Min(Max(PatientFeatures(p)[step + 1], ConfGrid), 9 * ConfGrid)

\* np.random.uniform(0.3, 0.9): a sample of the interval [0.3, 0.9), its
\* ends and the two sides of the 0.5 threshold
UniformDraws == {3 * ConfGrid, 5 * ConfGrid, 5 * ConfGrid + 1, 9 * ConfGrid - 1}

\* the confidences a DIAGNOSE at `step` can use (lines 105-109)
DiagnoseConfidences(p, step) ==
  IF EstimateConfidence(p, step) < 3 * ConfGrid
  THEN UniformDraws
  ELSE {EstimateConfidence(p, step)}

\* EndOfEpisode with > for >= in the max_episode_length test
EndOfEpisodeOffByOne(p, step, terminated) ==
  [terminated |-> terminated \/ step >= NumSegments(p),
   truncated |-> step < NumSegments(p) /\ step > max_episode_length]

\* EndOfEpisode that never truncates
EndOfEpisodeNoTruncation(p, step, terminated) ==
  [terminated |-> terminated \/ step >= NumSegments(p),
   truncated |-> FALSE]

\* EndOfEpisode with the max_episode_length test made on its own (if for elif)
EndOfEpisodeIndependentChecks(p, step, terminated) ==
  [terminated |-> terminated \/ step >= NumSegments(p),
   truncated |-> step >= max_episode_length]

\* lines 156-159 (and 93-96): terminated, truncated for the cursor `step`
EndOfEpisode(p, step, terminated) ==
  [terminated |-> terminated \/ step >= NumSegments(p),
   truncated |-> step < NumSegments(p) /\ step >= max_episode_length]

V1Recorded ==
  <<episode_predictions, episode_confidences, episode_rewards,
    episode_timestamps, episode_event_details>>

\* V1Reset that forgets to clear the rewards and the event details
V1ResetKeepsDetails ==
  /\ variant = "v1"
  /\ IF PatientList = {}
     THEN /\ ret' = Raised
          /\ phase' = phase
          /\ UNCHANGED <<current_patient, current_step, V1Recorded>>
     ELSE /\ \E p \in PatientList :
               /\ current_patient' = p
               /\ ret' = Returned(GetObservation(p, 0), 0, FALSE, FALSE)
          /\ current_step' = 0
          /\ episode_predictions' = <<>>
          /\ episode_confidences' = <<>>
          /\ episode_timestamps' = <<>>
          /\ UNCHANGED <<episode_rewards, episode_event_details>>
          /\ phase' = "RUNNING"
  /\ call' = [op |-> "reset", action |-> WAIT]
  /\ UNCHANGED <<variant, labels, max_episode_length, m2vars, purevars>>

\* reset(): np.random.randint(0, len(self.patient_list)) raises ValueError
\* when there is no patient (line 58), before anything is assigned
V1Reset ==
  /\ variant = "v1"
  /\ IF PatientList = {}
     THEN /\ ret' = Raised
          /\ phase' = phase
          /\ UNCHANGED <<current_patient, current_step, V1Recorded>>
     ELSE /\ \E p \in PatientList :
               /\ current_patient' = p
               /\ ret' = Returned(GetObservation(p, 0), 0, FALSE, FALSE)
          /\ current_step' = 0
          /\ episode_predictions' = <<>>
          /\ episode_confidences' = <<>>
          /\ episode_rewards' = <<>>
          /\ episode_timestamps' = <<>>
          /\ episode_event_details' = <<>>
          /\ phase' = "RUNNING"
  /\ call' = [op |-> "reset", action |-> WAIT]
  /\ UNCHANGED <<variant, labels, max_episode_length, m2vars, purevars>>

\* what step() returns once the action has been applied (lines 155-174)
V1StepReturn(p, step, reward, terminated) ==
  LET e == EndOfEpisode(p, step, terminated)
  IN  Returned(GetObservation(p, step), reward, e.terminated, e.truncated)

\* step() on an instance that was never reset: self.current_patient does not
\* exist, and the first read of it raises AttributeError.  WAIT has already
\* advanced the cursor by then (line 92).
V1StepNoPatient(action) ==
  /\ current_patient = NoPatient
  /\ current_step' = IF action = WAIT THEN current_step + 1 ELSE current_step
  /\ ret' = Raised
  /\ UNCHANGED <<current_patient, V1Recorded>>

\* V1Wait with a time penalty of -0.01 as the reward
V1WaitPenalised ==
  /\ current_patient # NoPatient
  /\ current_step' = current_step + 1
  /\ ret' = V1StepReturn(current_patient, current_step + 1,
                         0 - (RewardOne \div 100), FALSE)
  /\ UNCHANGED <<current_patient, V1Recorded>>

V1Wait ==
  /\ current_patient # NoPatient
  /\ current_step' = current_step + 1
  /\ ret' = V1StepReturn(current_patient, current_step + 1, 0, FALSE)
  /\ UNCHANGED <<current_patient, V1Recorded>>

\* DiagnoseTimestamp read after the cursor has advanced
DiagnoseTimestampAfterAdvance(step) == (step + 1) * SegmentSeconds

\* timestamp = self.current_step * 10.0 (line 131)
DiagnoseTimestamp(step) == step * SegmentSeconds

\* V1Record that keeps a timestamp only for an apnea prediction
V1RecordApneaOnly(prediction, confidence, reward, timestamp, event_detail) ==
  /\ episode_predictions' = Append(episode_predictions, prediction)
  /\ episode_confidences' = Append(episode_confidences, confidence)
  /\ episode_rewards' = Append(episode_rewards, reward)
  /\ episode_timestamps' = IF prediction = 1
                           THEN Append(episode_timestamps, timestamp)
                           ELSE episode_timestamps
  /\ episode_event_details' = Append(episode_event_details, event_detail)

\* lines 133-147: the episode's lists each take one entry
V1Record(prediction, confidence, reward, timestamp, event_detail) ==
  /\ episode_predictions' = Append(episode_predictions, prediction)
  /\ episode_confidences' = Append(episode_confidences, confidence)
  /\ episode_rewards' = Append(episode_rewards, reward)
  /\ episode_timestamps' = Append(episode_timestamps, timestamp)
  /\ episode_event_details' = Append(episode_event_details, event_detail)

V1Diagnose ==
  /\ current_patient # NoPatient
  /\ IF current_step < NumSegments(current_patient)
     THEN \E confidence \in DiagnoseConfidences(current_patient, current_step) :
            LET true_label == PatientLabels(current_patient)[current_step + 1]
                correctness == Correctness(confidence, true_label)
                reward == DiagnoseReward(confidence, true_label)
                prediction == IF OverHalf(confidence) THEN 1 ELSE 0
                timestamp == DiagnoseTimestamp(current_step)
            IN  /\ V1Record(prediction, confidence, reward, timestamp,
                            [timestamp |-> timestamp, prediction |-> prediction,
                             confidence |-> confidence, true_label |-> true_label,
                             correctness |-> correctness, reward |-> reward])
                /\ current_step' = current_step + 1
                /\ ret' = V1StepReturn(current_patient, current_step + 1,
                                       reward, FALSE)
     ELSE /\ ret' = V1StepReturn(current_patient, current_step, 0, FALSE)
          /\ UNCHANGED <<current_step, V1Recorded>>
  /\ UNCHANGED current_patient

\* V1Escalate that moves the cursor on like the other actions
V1EscalateAdvancing ==
  /\ current_patient # NoPatient
  /\ current_step' = current_step + 1
  /\ ret' = V1StepReturn(current_patient, current_step + 1, EscalatePenalty, TRUE)
  /\ UNCHANGED <<current_patient, V1Recorded>>

\* V1Escalate that leaves the end of the episode to the cursor check
V1EscalateNotTerminating ==
  /\ current_patient # NoPatient
  /\ ret' = V1StepReturn(current_patient, current_step, EscalatePenalty, FALSE)
  /\ UNCHANGED <<current_patient, current_step, V1Recorded>>

V1Escalate ==
  /\ current_patient # NoPatient
  /\ ret' = V1StepReturn(current_patient, current_step, EscalatePenalty, TRUE)
  /\ UNCHANGED <<current_patient, current_step, V1Recorded>>

\* an action that is none of 0, 1, 2: no branch is taken
V1OtherAction ==
  /\ current_patient # NoPatient
  /\ ret' = V1StepReturn(current_patient, current_step, 0, FALSE)
  /\ UNCHANGED <<current_patient, current_step, V1Recorded>>

V1Step(action) ==
  /\ variant = "v1"
  /\ current_step < MaxCursor
  /\ \/ V1StepNoPatient(action)
     \/ action = WAIT /\ V1Wait
     \/ action = DIAGNOSE /\ V1Diagnose
     \/ action = ESCALATE /\ V1Escalate
     \/ action \notin {WAIT, DIAGNOSE, ESCALATE} /\ V1OtherAction
  /\ call' = [op |-> "step", action |-> action]
  /\ phase' = PhaseAfterStep(phase, ret')
  /\ UNCHANGED <<variant, labels, max_episode_length, m2vars, purevars>>

\* ===================================================================
\* model2: reset and step (apnea_detection_env.py)
\* ===================================================================

\* len(self.audio_segments) = len(self.features) = len(self.labels)
M2NumSegments == Len(m2_labels)

\* self.features[idx] (0-based idx): segment k's spectrogram is represented by
\* k, which is never the zero matrix
M2Feature(idx) == idx + 1

\* confidence = 0.7, the placeholder of line 120
M2Confidence == 7 * ConfGrid

\* correctness = float(current_label); reward = correctness - (confidence - correctness) ** 2
M2DiagnoseReward(current_label) ==
  current_label * RewardOne
    - 20 * (M2Confidence - One * current_label) * (M2Confidence - One * current_label)

\* lines 141-160: done, the observation, and the tuple returned.  With no
\* segments np.zeros_like(self.features[0]) raises IndexError.
M2StepReturn(idx, reward, done0) ==
  LET done == done0 \/ idx >= M2NumSegments
  IN  IF ~done THEN Returned(M2Feature(idx), reward, FALSE, FALSE)
      ELSE IF M2NumSegments = 0 THEN Raised
      ELSE Returned(0, reward, TRUE, FALSE)

\* M2Reset that answers an empty recording with the zero observation
M2ResetZeroObservation ==
  /\ variant = "model2"
  /\ current_segment_idx' = 0
  /\ diagnosed_segments' = <<>>
  /\ escalated' = FALSE
  /\ ret' = Returned(IF M2NumSegments = 0 THEN 0 ELSE M2Feature(0),
                     0, FALSE, FALSE)
  /\ phase' = "RUNNING"
  /\ call' = [op |-> "reset", action |-> WAIT]
  /\ UNCHANGED <<variant, m2_labels, v1vars, purevars>>

\* reset(): the state is cleared, then self.features[0] is read (IndexError
\* when there is no segment)
M2Reset ==
  /\ variant = "model2"
  /\ current_segment_idx' = 0
  /\ diagnosed_segments' = <<>>
  /\ escalated' = FALSE
  /\ ret' = IF M2NumSegments = 0 THEN Raised
            ELSE Returned(M2Feature(0), 0, FALSE, FALSE)
  /\ phase' = IF ret'.kind = "ok" THEN "RUNNING" ELSE phase
  /\ call' = [op |-> "reset", action |-> WAIT]
  /\ UNCHANGED <<variant, m2_labels, v1vars, purevars>>

M2Wait ==
  /\ current_segment_idx' = current_segment_idx + 1
  /\ ret' = M2StepReturn(current_segment_idx + 1, 0, FALSE)
  /\ UNCHANGED <<diagnosed_segments, escalated>>

\* self.labels[self.current_segment_idx] raises IndexError past the end
M2Diagnose ==
  IF current_segment_idx < M2NumSegments
  THEN LET current_label == m2_labels[current_segment_idx + 1]
           reward == M2DiagnoseReward(current_label)
       IN  /\ diagnosed_segments' =
                Append(diagnosed_segments,
                       [segment_idx |-> current_segment_idx,
                        label |-> current_label,
                        confidence |-> M2Confidence,
                        reward |-> reward])
           /\ current_segment_idx' = current_segment_idx + 1
           /\ ret' = M2StepReturn(current_segment_idx + 1, reward, FALSE)
           /\ UNCHANGED escalated
  ELSE /\ ret' = Raised
       /\ UNCHANGED <<current_segment_idx, diagnosed_segments, escalated>>

M2Escalate ==
  /\ escalated' = TRUE
  /\ ret' = M2StepReturn(current_segment_idx, EscalatePenalty, TRUE)
  /\ UNCHANGED <<current_segment_idx, diagnosed_segments>>

\* an action that is none of 0, 1, 2: no branch is taken
M2OtherAction ==
  /\ ret' = M2StepReturn(current_segment_idx, 0, FALSE)
  /\ UNCHANGED <<current_segment_idx, diagnosed_segments, escalated>>

M2Step(action) ==
  /\ variant = "model2"
  /\ current_segment_idx < MaxCursor
  /\ \/ action = WAIT /\ M2Wait
     \/ action = DIAGNOSE /\ M2Diagnose
     \/ action = ESCALATE /\ M2Escalate
     \/ action \notin {WAIT, DIAGNOSE, ESCALATE} /\ M2OtherAction
  /\ call' = [op |-> "step", action |-> action]
  /\ phase' = PhaseAfterStep(phase, ret')
  /\ UNCHANGED <<variant, m2_labels, v1vars, purevars>>

\* ===================================================================
\* Metrics: severity score, expected calibration error, episode metrics
\* ===================================================================

Abs(x) == IF x >= 0 THEN x ELSE 0 - x

RECURSIVE SeqSum(_)
\* np.sum of an array
SeqSum(seq) == IF seq = <<>> THEN 0 ELSE Head(seq) + SeqSum(Tail(seq))

\* seq[:n]
Prefix(seq, n) == SubSeq(seq, 1, Min(n, Len(seq)))

\* CalculateSeverityScore with the comment's boundary 30 for the mild bucket
CalculateSeverityScoreComment(predictions, timestamps) ==
  LET n == Len(predictions)
      n_apnea_events == SeqSum(predictions)
      Below(t) == n_apnea_events * 3600 < t * n * SegmentSeconds
  IN  IF n = 0 THEN 0
      ELSE IF n_apnea_events = 0 THEN 0
      ELSE IF Below(5) THEN 1
      ELSE IF Below(15) THEN 2
      ELSE IF Below(30) THEN 4
      ELSE IF Below(35) THEN 6
      ELSE IF Below(50) THEN 8
      ELSE 10

\* CalculateSeverityScore with the scores of two buckets exchanged
CalculateSeverityScoreSwapped(predictions, timestamps) ==
  LET n == Len(predictions)
      n_apnea_events == SeqSum(predictions)
      Below(t) == n_apnea_events * 3600 < t * n * SegmentSeconds
  IN  IF n = 0 THEN 0
      ELSE IF n_apnea_events = 0 THEN 0
      ELSE IF Below(5) THEN 1
      ELSE IF Below(15) THEN 2
      ELSE IF Below(25) THEN 6
      ELSE IF Below(35) THEN 4
      ELSE IF Below(50) THEN 8
      ELSE 10

\* _calculate_severity_score (apnea_env.py lines 183-221), in tenths:
\* ahi = n_apnea_events / (len(predictions) * 10.0 / 3600.0), and ahi < t is
\* n_apnea_events * 3600 < t * len(predictions) * 10
CalculateSeverityScore(predictions, timestamps) ==
  LET n == Len(predictions)
      n_apnea_events == SeqSum(predictions)
      Below(t) == n_apnea_events * 3600 < t * n * SegmentSeconds
  IN  IF n = 0 THEN 0
      ELSE IF n_apnea_events = 0 THEN 0
      ELSE IF Below(5) THEN 1
      ELSE IF Below(15) THEN 2
      ELSE IF Below(25) THEN 4
      ELSE IF Below(35) THEN 6
      ELSE IF Below(50) THEN 8
      ELSE 10

\* n_bins = 10
NBins == 10
\* bin_boundaries = np.linspace(0, 1, n_bins + 1)
BinBoundary(b) == (b * One) \div NBins

\* InBin with both ends of the bin closed
InBinClosed(confidence, b) ==
  confidence >= BinBoundary(b) /\ confidence <= BinBoundary(b + 1)

\* in_bin = (confidences > bin_lower) & (confidences <= bin_upper), for the
\* bin b = 0 .. n_bins - 1
InBin(confidence, b) ==
  confidence > BinBoundary(b) /\ confidence <= BinBoundary(b + 1)

\* One * np.sum(in_bin) * np.abs(bin_confidence - bin_accuracy) of bin b, and
\* 0 for a bin that holds no sample, which the loop skips
EceBinTerm(b, confidences, true_labels) ==
  LET n == Min(Len(confidences), Len(true_labels))
      conf_in_bin == [i \in 1..n |->
                        IF InBin(confidences[i], b) THEN confidences[i] ELSE 0]
      label_in_bin == [i \in 1..n |->
                         IF InBin(confidences[i], b) THEN true_labels[i] ELSE 0]
  IN  IF \A i \in 1..n : ~InBin(confidences[i], b) THEN 0
      ELSE Abs(SeqSum(conf_in_bin) - One * SeqSum(label_in_bin))

RECURSIVE EceSumFrom(_, _, _)
EceSumFrom(b, confidences, true_labels) ==
  IF b >= NBins THEN 0
  ELSE EceBinTerm(b, confidences, true_labels)
         + EceSumFrom(b + 1, confidences, true_labels)

\* One * ece when the loop over the bins is done
EceSum(confidences, true_labels) == EceSumFrom(0, confidences, true_labels)

\* calculate_ece of utils.py (lines 7-33): ece / len(confidences) as the
\* fraction num / den; 0.0 / 0 raises ZeroDivisionError
CalculateEce(confidences, predictions, true_labels) ==
  IF Len(confidences) = 0
  THEN [kind |-> "error"]
  ELSE [kind |-> "ok", num |-> EceSum(confidences, true_labels),
        den |-> One * Len(confidences)]

\* a call that returned the metrics m (a dictionary)
MetricsReturned(m) ==
  [kind |-> "ok", obs |-> 0, reward |-> 0, terminated |-> FALSE,
   truncated |-> FALSE, metrics |-> m]

\* return {}
EmptyMapping == [empty |-> TRUE]

RECURSIVE ApneaEventsFrom(_, _, _, _)
\* lines 266-274: one entry per prediction == 1, 'step' being the position i
\* of enumerate() in the prediction list
ApneaEventsFrom(i, predictions, confidences, timestamps) ==
  IF i >= Len(predictions) THEN <<>>
  ELSE (IF predictions[i + 1] = 1
        THEN <<[timestamp |-> timestamps[i + 1],
                confidence |-> confidences[i + 1], step |-> i]>>
        ELSE <<>>)
       \o ApneaEventsFrom(i + 1, predictions, confidences, timestamps)

\* the number of positions at which predictions == true_labels
MatchCount(predictions, true_labels) ==
  Cardinality({i \in 1..Len(predictions) : predictions[i] = true_labels[i]})

\* the dictionary get_episode_metrics builds (lines 228-288): accuracy is
\* n_correct / n_predictions, ece is ece_num / (One * n_predictions),
\* mean_confidence is conf_sum / (One * n_predictions), severity in tenths
V1EpisodeMetrics ==
  LET all_labels == PatientLabels(current_patient)
      true_labels == Prefix(all_labels, Len(episode_predictions))
      n_predictions == Len(true_labels)
      predictions == Prefix(episode_predictions, n_predictions)
      confidences == Prefix(episode_confidences, n_predictions)
      timestamps == Prefix(episode_timestamps, n_predictions)
  IN  [empty |-> FALSE,
       patient_id |-> current_patient,
       n_correct |-> MatchCount(predictions, true_labels),
       ece_num |-> EceSum(confidences, true_labels),
       conf_sum |-> SeqSum(confidences),
       n_predictions |-> n_predictions,
       n_apnea_events |-> SeqSum(predictions),
       severity_score |-> CalculateSeverityScore(predictions, timestamps),
       apnea_event_details |->
         ApneaEventsFrom(0, predictions, confidences, timestamps)]

\* V1GetEpisodeMetrics that answers an episode without diagnosis with a
\* record of zeros
V1GetEpisodeMetricsZeroRecord ==
  /\ variant = "v1"
  /\ ret' = MetricsReturned(
              IF episode_predictions = <<>>
              THEN [empty |-> FALSE, patient_id |-> current_patient,
                    n_correct |-> 0, ece_num |-> 0, conf_sum |-> 0,
                    n_predictions |-> 0, n_apnea_events |-> 0,
                    severity_score |-> 0, apnea_event_details |-> <<>>]
              ELSE V1EpisodeMetrics)
  /\ call' = [op |-> "metrics", action |-> WAIT]
  /\ UNCHANGED <<variant, phase, v1vars, m2vars, purevars>>

\* get_episode_metrics (lines 223-288)
V1GetEpisodeMetrics ==
  /\ variant = "v1"
  /\ ret' = MetricsReturned(IF episode_predictions = <<>>
                            THEN EmptyMapping ELSE V1EpisodeMetrics)
  /\ call' = [op |-> "metrics", action |-> WAIT]
  /\ UNCHANGED <<variant, phase, v1vars, m2vars, purevars>>

\* the dictionary get_episode_results of model2 builds (lines 167-191);
\* _calculate_ece(labels, confidences) is ece_num / (One * total_segments)
M2EpisodeResults ==
  LET seg_labels == [i \in 1..Len(diagnosed_segments) |->
                       diagnosed_segments[i].label]
      confidences == [i \in 1..Len(diagnosed_segments) |->
                        diagnosed_segments[i].confidence]
  IN  [empty |-> FALSE,
       total_segments |-> Len(diagnosed_segments),
       apnea_count |-> SeqSum(seg_labels),
       ece_num |-> EceSum(confidences, seg_labels),
       diagnosed_segments |-> diagnosed_segments]

\* get_episode_results of model2 (lines 162-191)
M2GetEpisodeResults ==
  /\ variant = "model2"
  /\ ret' = MetricsReturned(IF diagnosed_segments = <<>>
                            THEN EmptyMapping ELSE M2EpisodeResults)
  /\ call' = [op |-> "metrics", action |-> WAIT]
  /\ UNCHANGED <<variant, phase, v1vars, m2vars, purevars>>

\* ===================================================================
\* Specification
\* ===================================================================

V1Idle ==
  /\ labels = <<>>
  /\ max_episode_length = 0
  /\ current_patient = NoPatient
  /\ current_step = 0
  /\ episode_predictions = <<>>
  /\ episode_confidences = <<>>
  /\ episode_rewards = <<>>
  /\ episode_timestamps = <<>>
  /\ episode_event_details = <<>>

M2Idle ==
  /\ m2_labels = <<>>
  /\ current_segment_idx = 0
  /\ diagnosed_segments = <<>>
  /\ escalated = FALSE

NoSeverity == [n |-> 0, k1 |-> 0, k2 |-> 0, s1 |-> 0, s2 |-> 0, done |-> FALSE]
NoEce == [confidences |-> <<>>, true_labels |-> <<>>, result |-> [kind |-> "none"],
          done |-> FALSE]

\* no instance pair under observation
NoIso == [rng |-> 0, alone |-> 0, draws |-> <<>>, other_calls |-> 0]
IsoIdle == iso = NoIso

\* create_patient_wise_splits not called
NoSplit == [n |-> 0, train_ratio |-> 0, val_ratio |-> 0, test_ratio |-> 0,
            result |-> [kind |-> "none"], done |-> FALSE]
SplitIdle == sp = NoSplit

\* the module api.py not loaded
\* {} of Python: the dictionary without keys
EmptyDict == <<>>

ApiIdle ==
  /\ user_profiles = {}
  /\ trained_agents = {}
  /\ training_status = EmptyDict
  /\ background_tasks = <<>>
  /\ task_log = <<>>

\* self.current_state = None
NoState == [exists |-> FALSE, temperature |-> 0, time_step |-> 0]
\* no step() has returned since reset()
NoStepCalls == [returned |-> 0, first_truncated |-> 0]

\* no SleepEnvironment built
SleepIdle ==
  /\ episode_length = 0
  /\ time_step = 0
  /\ current_state = NoState
  /\ episode_history = 0
  /\ step_calls = NoStepCalls

ExtIdle == IsoIdle /\ SplitIdle /\ ApiIdle /\ SleepIdle

NoReward ==
  [c1 |-> 0, c2 |-> 0, label |-> 0, r1 |-> 0, r2 |-> 0, m2 |-> 0, done |-> FALSE]

\* __init__ of v1 (lines 8-37)
V1Init ==
  /\ variant = "v1"
  /\ labels \in [1..NSamples -> {0, 1}] \cup {<<>>}
  /\ max_episode_length \in 0..MaxEpisodeLength
  /\ current_patient = NoPatient
  /\ current_step = 0
  /\ episode_predictions = <<>>
  /\ episode_confidences = <<>>
  /\ episode_rewards = <<>>
  /\ episode_timestamps = <<>>
  /\ episode_event_details = <<>>
  /\ M2Idle

\* the label lists an instance of model2 may be built on
M2LabelLists ==
  UNION {[1..n -> {0, 1}] : n \in 0..M2MaxSegments}

\* __init__ of model2 (lines 23-51)
M2Init ==
  /\ variant = "model2"
  /\ m2_labels \in M2LabelLists
  /\ current_segment_idx = 0
  /\ diagnosed_segments = <<>>
  /\ escalated = FALSE
  /\ V1Idle

\* an instance of either class, just constructed
Init ==
  /\ phase = "READY"
  /\ call = NoCall
  /\ ret = NoRet
  /\ rw = NoReward
  /\ sv = NoSeverity
  /\ ec = NoEce
  /\ ExtIdle
  /\ (V1Init \/ M2Init)

Next ==
  \/ V1Reset
  \/ \E action \in ActionInputs : V1Step(action)
  \/ M2Reset
  \/ \E action \in ActionInputs : M2Step(action)
  \/ V1GetEpisodeMetrics
  \/ M2GetEpisodeResults

Spec == Init /\ [][Next]_vars

\* ===================================================================
\* The reward as a function: two confidences in [0, 1] and a true label go
\* in, the DIAGNOSE rewards of the two environments come out
\* ===================================================================

RewardInit ==
  /\ variant = "none"
  /\ phase = "READY"
  /\ call = NoCall
  /\ ret = NoRet
  /\ V1Idle
  /\ M2Idle
  /\ sv = NoSeverity
  /\ ec = NoEce
  /\ ExtIdle
  /\ rw \in [c1 : 0..One, c2 : 0..One, label : {0, 1},
              r1 : {0}, r2 : {0}, m2 : {0}, done : {FALSE}]

RewardEvaluate ==
  /\ ~rw.done
  /\ rw' = [rw EXCEPT !.r1 = DiagnoseReward(rw.c1, rw.label),
                      !.r2 = DiagnoseReward(rw.c2, rw.label),
                      !.m2 = M2DiagnoseReward(rw.label),
                      !.done = TRUE]
  /\ UNCHANGED <<variant, phase, call, ret, v1vars, m2vars, sv, ec, extvars>>

RewardNext == RewardEvaluate

RewardSpec == RewardInit /\ [][RewardNext]_vars

\* ===================================================================
\* The severity score as a function: an episode of n predictions of which
\* k are apnea goes in, for two counts k1 <= k2 of the same n
\* ===================================================================

SeverityMaxN == 100

\* a prediction array of length n that holds k apnea predictions
SeverityPredictions(n, k) == [i \in 1..n |-> IF i <= k THEN 1 ELSE 0]
\* the timestamps of n diagnoses made one segment after the other
SeverityTimestamps(n) == [i \in 1..n |-> DiagnoseTimestamp(i - 1)]

SeverityInit ==
  /\ variant = "none"
  /\ phase = "READY"
  /\ call = NoCall
  /\ ret = NoRet
  /\ V1Idle
  /\ M2Idle
  /\ rw = NoReward
  /\ ec = NoEce
  /\ ExtIdle
  /\ \E n \in 0..SeverityMaxN : \E k1 \in 0..n : \E k2 \in k1..n :
       sv = [n |-> n, k1 |-> k1, k2 |-> k2, s1 |-> 0, s2 |-> 0,
             done |-> FALSE]

SeverityEvaluate ==
  /\ ~sv.done
  /\ sv' = [sv EXCEPT
              !.s1 = CalculateSeverityScore(SeverityPredictions(sv.n, sv.k1),
                                            SeverityTimestamps(sv.n)),
              !.s2 = CalculateSeverityScore(SeverityPredictions(sv.n, sv.k2),
                                            SeverityTimestamps(sv.n)),
              !.done = TRUE]
  /\ UNCHANGED <<variant, phase, call, ret, v1vars, m2vars, rw, ec, extvars>>

SeverityNext == SeverityEvaluate

SeveritySpec == SeverityInit /\ [][SeverityNext]_vars

\* ===================================================================
\* calculate_ece as a function: confidences and true labels of up to
\* EceMaxLen samples go in, none included
\* ===================================================================

EceMaxLen == 3

\* the confidences tried: 0, 0.1, 0.2, 0.5, just above 0.5, and 1
EceConfidences == {0, ConfGrid, 2 * ConfGrid, 5 * ConfGrid, 5 * ConfGrid + 1, One}

EceInit ==
  /\ variant = "none"
  /\ phase = "READY"
  /\ call = NoCall
  /\ ret = NoRet
  /\ V1Idle
  /\ M2Idle
  /\ rw = NoReward
  /\ sv = NoSeverity
  /\ ExtIdle
  /\ \E n \in 0..EceMaxLen :
       \E confidences \in [1..n -> EceConfidences] :
         \E true_labels \in [1..n -> {0, 1}] :
           ec = [confidences |-> confidences, true_labels |-> true_labels,
                 result |-> [kind |-> "none"], done |-> FALSE]

EceEvaluate ==
  /\ ~ec.done
  /\ ec' = [ec EXCEPT
              !.result = CalculateEce(ec.confidences,
                                      [i \in 1..Len(ec.confidences) |->
                                         IF OverHalf(ec.confidences[i])
                                         THEN 1 ELSE 0],
                                      ec.true_labels),
              !.done = TRUE]
  /\ UNCHANGED <<variant, phase, call, ret, v1vars, m2vars, rw, sv, extvars>>

EceNext == EceEvaluate

EceSpec == EceInit /\ [][EceNext]_vars

\* ===================================================================
\* create_patient_wise_splits (data_loader.py lines 93-121) as a function:
\* n patients and three ratios go in, three patient lists or ValueError
\* come out.  A ratio r stands for r / RatioGrid; on this grid and for these
\* n, int(n * ratio) in floating point is the exact floor.
\* ===================================================================

SplitMaxPatients == 20
RatioGrid == 20
FullShuffleMax == 4

\* list(data.keys()): the patients 1 .. n in the order of the dictionary
SplitPatientIds(n) == [i \in 1..n |-> i]

\* what np.random.shuffle may leave: any order of the n patients for
\* n <= FullShuffleMax, and beyond that the rotations of the list and of its
\* reverse
Shuffles(n) ==
  IF n <= FullShuffleMax
  THEN {f \in [1..n -> 1..n] : \A i, j \in 1..n : f[i] = f[j] => i = j}
  ELSE {[i \in 1..n |-> ((i - 1 + k) % n) + 1] : k \in 0..(n - 1)}
         \cup {[i \in 1..n |-> n - ((i - 1 + k) % n)] : k \in 0..(n - 1)}

\* int(n_patients * ratio)
SplitCount(n_patients, ratio) == (n_patients * ratio) \div RatioGrid

\* CreatePatientWiseSplits whose test list starts where the train list ends
CreatePatientWiseSplitsOverlap(n_patients, train_ratio, val_ratio, test_ratio, patient_ids) ==
  IF train_ratio + val_ratio + test_ratio # RatioGrid
  THEN [kind |-> "ValueError"]
  ELSE LET n_train == SplitCount(n_patients, train_ratio)
           n_val == SplitCount(n_patients, val_ratio)
       IN  [kind |-> "ok",
            train_patients |-> SubSeq(patient_ids, 1, n_train),
            val_patients |-> SubSeq(patient_ids, n_train + 1, n_train + n_val),
            test_patients |-> SubSeq(patient_ids, n_train + 1, n_patients)]

\* lines 102-121, patient_ids being the list after the shuffle
CreatePatientWiseSplits(n_patients, train_ratio, val_ratio, test_ratio, patient_ids) ==
  IF train_ratio + val_ratio + test_ratio # RatioGrid
  THEN [kind |-> "ValueError"]
  ELSE LET n_train == SplitCount(n_patients, train_ratio)
           n_val == SplitCount(n_patients, val_ratio)
       IN  [kind |-> "ok",
            train_patients |-> SubSeq(patient_ids, 1, n_train),
            val_patients |-> SubSeq(patient_ids, n_train + 1, n_train + n_val),
            test_patients |->
              SubSeq(patient_ids, n_train + n_val + 1, n_patients)]

\* the test ratios tried with a train and a validation ratio: the one that
\* completes the sum to 1, its two neighbours on the grid, and 0
TestRatios(train_ratio, val_ratio) ==
  ({RatioGrid - train_ratio - val_ratio + d : d \in {0 - 1, 0, 1}} \cup {0})
    \cap (0..RatioGrid)

SplitInit ==
  /\ variant = "none"
  /\ phase = "READY"
  /\ call = NoCall
  /\ ret = NoRet
  /\ V1Idle
  /\ M2Idle
  /\ rw = NoReward
  /\ sv = NoSeverity
  /\ ec = NoEce
  /\ IsoIdle
  /\ ApiIdle
  /\ SleepIdle
  /\ \E n \in 0..SplitMaxPatients :
       \E train_ratio \in 0..RatioGrid : \E val_ratio \in 0..RatioGrid :
         \E test_ratio \in TestRatios(train_ratio, val_ratio) :
           sp = [n |-> n, train_ratio |-> train_ratio, val_ratio |-> val_ratio,
                 test_ratio |-> test_ratio, result |-> [kind |-> "none"],
                 done |-> FALSE]

SplitEvaluate ==
  /\ ~sp.done
  /\ \E shuffled \in Shuffles(sp.n) :
       sp' = [sp EXCEPT
                !.result = CreatePatientWiseSplits(
                             sp.n, sp.train_ratio, sp.val_ratio, sp.test_ratio,
                             [i \in 1..sp.n |-> SplitPatientIds(sp.n)[shuffled[i]]]),
                !.done = TRUE]
  /\ UNCHANGED <<variant, phase, call, ret, v1vars, m2vars, rw, sv, ec,
                 iso, apivars, sleepvars>>

SplitNext == SplitEvaluate

SplitSpec == SplitInit /\ [][SplitNext]_vars

\* ===================================================================
\* Two instances of the v1 environment in one process.  reset() and DIAGNOSE
\* draw from numpy's global generator (np.random.randint, line 58;
\* np.random.uniform, line 109), whose state every draw advances.  Beside the
\* generator runs the state it would have had if only instance 1 had been
\* called, and each draw of instance 1 is recorded with the value it would
\* have had then.
\* ===================================================================

RngModulus == 16
IsoMaxCalls == 3

\* the generator's state after one draw
RngAdvance(g) == (5 * g + 3) % RngModulus
\* np.random.randint(0, len(self.patient_list)) from the state g, as the
\* patient selected
RandInt(g) == (g % NPatients) + 1
\* np.random.uniform(0.3, 0.9) from the state g: 0.3 + g * 0.6 / RngModulus
RandUniform(g) == 3 * ConfGrid + (g * 6 * ConfGrid) \div RngModulus

IsolationInit ==
  /\ variant = "none"
  /\ phase = "READY"
  /\ call = NoCall
  /\ ret = NoRet
  /\ V1Idle
  /\ M2Idle
  /\ rw = NoReward
  /\ sv = NoSeverity
  /\ ec = NoEce
  /\ SplitIdle
  /\ ApiIdle
  /\ SleepIdle
  /\ \E g \in 0..(RngModulus - 1) :
       iso = [rng |-> g, alone |-> g, draws |-> <<>>, other_calls |-> 0]

\* what the calls on the two instances leave unchanged
IsoRest == <<variant, phase, call, ret, v1vars, m2vars, rw, sv, ec,
             sp, apivars, sleepvars>>

\* instance 1: reset() selects its patient (lines 58-59)
IsoReset ==
  /\ UNCHANGED IsoRest
  /\ Len(iso.draws) < IsoMaxCalls
  /\ iso' = [iso EXCEPT
               !.rng = RngAdvance(iso.rng),
               !.alone = RngAdvance(iso.alone),
               !.draws = Append(iso.draws,
                                [op |-> "reset", value |-> RandInt(iso.rng),
                                 alone |-> RandInt(iso.alone)])]

\* instance 1: DIAGNOSE on a segment whose estimated confidence is below 0.3
\* records a uniform draw (lines 108-109, 134)
IsoDiagnose ==
  /\ UNCHANGED IsoRest
  /\ Len(iso.draws) < IsoMaxCalls
  /\ iso' = [iso EXCEPT
               !.rng = RngAdvance(iso.rng),
               !.alone = RngAdvance(iso.alone),
               !.draws = Append(iso.draws,
                                [op |-> "diagnose",
                                 value |-> RandUniform(iso.rng),
                                 alone |-> RandUniform(iso.alone)])]

\* instance 2: a reset() or such a DIAGNOSE draws from the same generator
IsoOtherInstance ==
  /\ UNCHANGED IsoRest
  /\ iso.other_calls < IsoMaxCalls
  /\ iso' = [iso EXCEPT !.rng = RngAdvance(iso.rng),
                        !.other_calls = iso.other_calls + 1]

IsolationNext == IsoReset \/ IsoDiagnose \/ IsoOtherInstance

IsolationSpec == IsolationInit /\ [][IsolationNext]_vars

\* ===================================================================
\* SleepEnvironment (layer3rl/sleep_environment.py): reset and step.  Of
\* the environment's factors the temperature is kept, in degrees; the sleep
\* metrics and the reward computed from the factors are not modelled, the
\* reward returned stands as 0.
\* ===================================================================

SleepMaxEpisodeLength == 3
SleepMaxSteps == 5

\* temp_bounds = (10.0, 30.0)
TempLow == 10
TempHigh == 30
\* temperature = 20.0 of reset()
TempBaseline == 20
\* the temperature changes tried, of the action space's [-2.0, 2.0]
TempChanges == {0 - 2, 0, 2}

\* what the calls on the SleepEnvironment leave unchanged
SleepRest == <<v1vars, m2vars, rw, sv, ec, iso, sp, apivars>>

\* __init__ (lines 46-92)
SleepInit ==
  /\ variant = "sleep"
  /\ phase = "READY"
  /\ call = NoCall
  /\ ret = NoRet
  /\ V1Idle
  /\ M2Idle
  /\ rw = NoReward
  /\ sv = NoSeverity
  /\ ec = NoEce
  /\ IsoIdle
  /\ SplitIdle
  /\ ApiIdle
  /\ episode_length \in 0..SleepMaxEpisodeLength
  /\ time_step = 0
  /\ current_state = NoState
  /\ episode_history = 0
  /\ step_calls = NoStepCalls

\* reset() (lines 94-121)
SleepReset ==
  /\ variant = "sleep"
  /\ current_state' = [exists |-> TRUE, temperature |-> TempBaseline,
                       time_step |-> 0]
  /\ time_step' = 0
  /\ episode_history' = 0
  /\ step_calls' = NoStepCalls
  /\ ret' = Returned(TempBaseline, 0, FALSE, FALSE)
  /\ phase' = "RUNNING"
  /\ call' = [op |-> "reset", action |-> 0]
  /\ UNCHANGED <<variant, episode_length, SleepRest>>

\* SleepTruncated with > for >=
SleepTruncatedStrict(t) == t > episode_length

\* truncated = self.time_step >= self.episode_length (line 148)
SleepTruncated(t) == t >= episode_length

\* step(action) (lines 123-158) with an action of seven components, of which
\* temp_change is the first.  Before the first reset() current_state is None
\* and _apply_action raises AttributeError ahead of any assignment.
SleepStep(temp_change) ==
  /\ variant = "sleep"
  /\ time_step < SleepMaxSteps
  /\ IF ~current_state.exists
     THEN /\ ret' = Raised
          /\ UNCHANGED <<time_step, current_state, episode_history, step_calls>>
     ELSE LET temperature ==
                Min(Max(current_state.temperature + temp_change, TempLow),
                    TempHigh)
              truncated == SleepTruncated(time_step + 1)
          IN  /\ time_step' = time_step + 1
              /\ current_state' = [exists |-> TRUE, temperature |-> temperature,
                                   time_step |-> time_step + 1]
              /\ episode_history' = episode_history + 1
              /\ step_calls' =
                   [returned |-> step_calls.returned + 1,
                    first_truncated |->
                      IF step_calls.first_truncated = 0 /\ truncated
                      THEN step_calls.returned + 1
                      ELSE step_calls.first_truncated]
              /\ ret' = Returned(temperature, 0, FALSE, truncated)
  /\ phase' = PhaseAfterStep(phase, ret')
  /\ call' = [op |-> "step", action |-> temp_change]
  /\ UNCHANGED <<variant, episode_length, SleepRest>>

\* step(action) with an action that does not have seven components: the
\* unpacking of line 163 raises ValueError
SleepStepMalformed ==
  /\ variant = "sleep"
  /\ ret' = Raised
  /\ phase' = phase
  /\ call' = [op |-> "step", action |-> 0]
  /\ UNCHANGED <<variant, episode_length, time_step, current_state,
                 episode_history, step_calls, SleepRest>>

SleepNext ==
  \/ SleepReset
  \/ \E temp_change \in TempChanges : SleepStep(temp_change)
  \/ SleepStepMalformed

SleepSpec == SleepInit /\ [][SleepNext]_vars

\* ===================================================================
\* The REST API (layer3rl/api.py): user profiles, training requests and
\* the background training tasks.  Every handler and the background task
\* are coroutines without an await inside, so each runs as one step of
\* the event loop; a queued task runs after the response of the request
\* that queued it was sent, and other requests may be served in between.
\* user_profiles and trained_agents are kept as their sets of keys,
\* training_status as user_id -> "status" field.  The model files under
\* api_models/ are not modelled.
\* ===================================================================

NUsers == 2
ApiMaxTasks == 2

Users == 1..NUsers

\* d[k] = v of Python
DictSet(d, k, v) ==
  [j \in DOMAIN d \cup {k} |-> IF j = k THEN v ELSE d[j]]
\* del d[k] of Python, for a key that is present or not
DictDel(d, k) == [j \in DOMAIN d \ {k} |-> d[j]]

\* the response of a handler: 200, or the status_code of the HTTPException
HttpResponse(status_code) ==
  [kind |-> "http", obs |-> status_code, reward |-> 0,
   terminated |-> FALSE, truncated |-> FALSE]

\* what the API calls leave unchanged
ApiRest == <<variant, phase, v1vars, m2vars, rw, sv, ec, iso, sp, sleepvars>>

\* the module's globals (lines 43-45); no task was queued
ApiInit ==
  /\ variant = "none"
  /\ phase = "READY"
  /\ call = NoCall
  /\ ret = NoRet
  /\ V1Idle
  /\ M2Idle
  /\ rw = NoReward
  /\ sv = NoSeverity
  /\ ec = NoEce
  /\ IsoIdle
  /\ SplitIdle
  /\ SleepIdle
  /\ user_profiles = {}
  /\ trained_agents = {}
  /\ training_status = EmptyDict
  /\ background_tasks = [u \in Users |-> 0]
  /\ task_log = [u \in Users |-> [deleted |-> FALSE, outcome |-> "none"]]

\* create_user_profile (lines 160-213)
CreateUserProfile(user_id) ==
  /\ call' = [op |-> "create_user_profile", action |-> user_id]
  /\ IF user_id \in user_profiles
     THEN /\ ret' = HttpResponse(400)
          /\ UNCHANGED <<user_profiles, task_log>>
     ELSE /\ user_profiles' = user_profiles \cup {user_id}
          /\ task_log' = [task_log EXCEPT ![user_id].deleted = FALSE]
          /\ ret' = HttpResponse(200)
  /\ UNCHANGED <<trained_agents, training_status, background_tasks, ApiRest>>

\* "Check if already training" (line 255)
AlreadyTraining(user_id) ==
  /\ user_id \in DOMAIN training_status
  /\ training_status[user_id] \in {"pending", "training"}

\* start_training (lines 248-277)
StartTraining(user_id) ==
  /\ (user_id \in user_profiles /\ ~AlreadyTraining(user_id))
       => background_tasks[user_id] < ApiMaxTasks
  /\ call' = [op |-> "start_training", action |-> user_id]
  /\ IF user_id \notin user_profiles
     THEN /\ ret' = HttpResponse(404)
          /\ UNCHANGED <<training_status, background_tasks>>
     ELSE IF AlreadyTraining(user_id)
     THEN /\ ret' = HttpResponse(400)
          /\ UNCHANGED <<training_status, background_tasks>>
     ELSE /\ training_status' = DictSet(training_status, user_id, "pending")
          /\ background_tasks' =
               [background_tasks EXCEPT ![user_id] = @ + 1]
          /\ ret' = HttpResponse(200)
  /\ UNCHANGED <<user_profiles, trained_agents, task_log, ApiRest>>

\* train_agent_background whose except clause stores a new "failed" status
\* for a user without one
TrainAgentBackgroundRecreating(user_id, trains) ==
  /\ background_tasks[user_id] > 0
  /\ background_tasks' = [background_tasks EXCEPT ![user_id] = @ - 1]
  /\ call' = [op |-> "train_agent_background", action |-> user_id]
  /\ IF user_id \notin DOMAIN training_status
         \/ user_id \notin user_profiles \/ ~trains
     THEN /\ training_status' = DictSet(training_status, user_id, "failed")
          /\ task_log' = [task_log EXCEPT ![user_id].outcome = "failed"]
          /\ UNCHANGED trained_agents
     ELSE /\ trained_agents' = trained_agents \cup {user_id}
          /\ training_status' = DictSet(training_status, user_id, "completed")
          /\ task_log' = [task_log EXCEPT ![user_id].outcome = "completed"]
  /\ UNCHANGED <<user_profiles, ret, ApiRest>>

\* train_agent_background (lines 280-337), one queued task for user_id run
\* from start to end; trains tells whether building and training the agent
\* (lines 290-318) go through or raise.  Without a status entry line 284
\* raises KeyError, and so does line 336 of the except clause: the task
\* ends with that exception ("raised").
TrainAgentBackground(user_id, trains) ==
  /\ background_tasks[user_id] > 0
  /\ background_tasks' = [background_tasks EXCEPT ![user_id] = @ - 1]
  /\ call' = [op |-> "train_agent_background", action |-> user_id]
  /\ IF user_id \notin DOMAIN training_status
     THEN /\ task_log' = [task_log EXCEPT ![user_id].outcome = "raised"]
          /\ UNCHANGED <<trained_agents, training_status>>
     ELSE IF user_id \notin user_profiles \/ ~trains
     THEN /\ training_status' = DictSet(training_status, user_id, "failed")
          /\ task_log' = [task_log EXCEPT ![user_id].outcome = "failed"]
          /\ UNCHANGED trained_agents
     ELSE /\ trained_agents' = trained_agents \cup {user_id}
          /\ training_status' = DictSet(training_status, user_id, "completed")
          /\ task_log' = [task_log EXCEPT ![user_id].outcome = "completed"]
  /\ UNCHANGED <<user_profiles, ret, ApiRest>>

\* delete_user (lines 407-428)
DeleteUser(user_id) ==
  /\ call' = [op |-> "delete_user", action |-> user_id]
  /\ IF user_id \notin user_profiles
     THEN /\ ret' = HttpResponse(404)
          /\ UNCHANGED <<user_profiles, trained_agents, training_status,
                         task_log>>
     ELSE /\ user_profiles' = user_profiles \ {user_id}
          /\ trained_agents' = trained_agents \ {user_id}
          /\ training_status' = DictDel(training_status, user_id)
          /\ task_log' = [task_log EXCEPT ![user_id].deleted = TRUE]
          /\ ret' = HttpResponse(200)
  /\ UNCHANGED <<background_tasks, ApiRest>>

ApiNext ==
  \/ \E user_id \in Users : CreateUserProfile(user_id)
  \/ \E user_id \in Users : StartTraining(user_id)
  \/ \E user_id \in Users, trains \in BOOLEAN :
       TrainAgentBackground(user_id, trains)
  \/ \E user_id \in Users : DeleteUser(user_id)

ApiSpec == ApiInit /\ [][ApiNext]_vars

\* ===================================================================
\* Properties
\* ===================================================================

\* the cursor of the instance
Cursor == IF variant = "v1" THEN current_step ELSE current_segment_idx
\* everything the episode has recorded
Recorded == IF variant = "v1" THEN V1Recorded ELSE <<diagnosed_segments>>
\* the number of diagnoses recorded
RecordedCount ==
  IF variant = "v1" THEN Len(episode_predictions) ELSE Len(diagnosed_segments)
\* the transition is a call of step(a)
IsStep(a) == call'.op = "step" /\ call'.action = a
IsPrefix(old, new) == Len(old) <= Len(new) /\ SubSeq(new, 1, Len(old)) = old

\* C1: in v1, after reset() and any sequence of step() calls (calls after
\* the end of the episode included), predictions, confidences and timestamps
\* have the same length.
C1_SameLength ==
  /\ Len(episode_predictions) = Len(episode_confidences)
  /\ Len(episode_confidences) = Len(episode_timestamps)

\* C1 witness: two diagnoses are recorded and the cursor has been stepped past
\* the patient's last segment, after the episode ended.
C1_Witness ==
  /\ variant = "v1"
  /\ current_patient # NoPatient
  /\ phase = "DONE"
  /\ Len(episode_predictions) = 2
  /\ current_step > NumSegments(current_patient)

\* C2 as stated: every step() call of a running episode, whatever the action
\* (WAIT, DIAGNOSE or ESCALATE), increases the cursor by exactly 1.
C2_EveryStepAdvances ==
  [][(phase = "RUNNING" /\ call'.op = "step"
        /\ call'.action \in {WAIT, DIAGNOSE, ESCALATE})
     => Cursor' = Cursor + 1]_vars

\* C2 amended: the cursor never decreases across a step() call; in a running
\* episode WAIT and DIAGNOSE increase it by exactly 1 and ESCALATE leaves it
\* where it is.
C2_CursorMonotone ==
  [][call'.op = "step"
     => /\ Cursor' >= Cursor
        /\ phase = "RUNNING" /\ call'.action \in {WAIT, DIAGNOSE}
             => Cursor' = Cursor + 1
        /\ phase = "RUNNING" /\ call'.action = ESCALATE
             => Cursor' = Cursor]_vars

\* C2 witness: an ESCALATE ended a running episode of v1 whose cursor had
\* already advanced.
C2_Witness ==
  /\ variant = "v1"
  /\ call = [op |-> "step", action |-> ESCALATE]
  /\ ret.kind = "ok" /\ ret.terminated
  /\ current_step = 1
  /\ current_step < NumSegments(current_patient)
  /\ Len(episode_predictions) = 1

\* C3: step() called when the episode is not RUNNING (before the first
\* reset(), or after the episode ended) fails with an error and leaves the
\* cursor and the recorded sequences as they were.
C3_StepOutsideRunningRejected ==
  [][(call'.op = "step" /\ phase # "RUNNING")
     => /\ ret'.kind = "error"
        /\ Cursor' = Cursor
        /\ Recorded' = Recorded]_vars

\* C4: step(action) with an action outside {0, 1, 2} fails with an error.
C4_InvalidActionRejected ==
  (call.op = "step" /\ call.action \notin {WAIT, DIAGNOSE, ESCALATE})
    => ret.kind = "error"

\* C5: in v1, after a WAIT or DIAGNOSE step of a running episode terminated
\* is true exactly when the new cursor >= the patient's number of segments,
\* and otherwise truncated is true exactly when the new cursor >=
\* max_episode_length; with 1 <= max_episode_length < number of segments the
\* episode runs untruncated and unterminated up to the step that brings the
\* cursor to max_episode_length, which reports truncated and not terminated.
C5_EndOfEpisode ==
  [][(variant = "v1" /\ phase = "RUNNING" /\ call'.op = "step"
        /\ call'.action \in {WAIT, DIAGNOSE})
     => LET n == NumSegments(current_patient)
            m == max_episode_length
        IN  /\ ret'.kind = "ok"
            /\ ret'.terminated <=> current_step' >= n
            /\ ~ret'.terminated => (ret'.truncated <=> current_step' >= m)
            /\ (1 <= m /\ m < n)
                 => IF current_step' = m
                    THEN ret'.truncated /\ ~ret'.terminated /\ phase' = "DONE"
                    ELSE /\ current_step' < m
                         /\ ~ret'.truncated /\ ~ret'.terminated
                         /\ phase' = "RUNNING"]_vars

\* C5 witness: max_episode_length = 2 on a patient with 3 segments; the
\* second WAIT reports truncated and not terminated with the cursor at 2.
C5_Witness ==
  /\ variant = "v1"
  /\ max_episode_length = 2
  /\ current_patient # NoPatient
  /\ NumSegments(current_patient) = 3
  /\ call = [op |-> "step", action |-> WAIT]
  /\ ret.kind = "ok" /\ ret.truncated /\ ~ret.terminated
  /\ current_step = 2
  /\ Len(episode_predictions) = 0
  /\ phase = "DONE"

\* C6: an ESCALATE in a running episode returns reward -0.1 and
\* terminated = true on that step and records nothing; as the first action
\* after reset() it ends the episode with nothing recorded.
C6_Escalate ==
  [][(phase = "RUNNING" /\ IsStep(ESCALATE))
     => /\ ret'.kind = "ok"
        /\ 10 * ret'.reward = 0 - RewardOne
        /\ ret'.terminated
        /\ phase' = "DONE"
        /\ Recorded' = Recorded
        /\ call.op = "reset" => RecordedCount' = 0]_vars

\* C6 witness: ESCALATE was the first action after reset() and the episode
\* is over with nothing recorded.
C6_Witness ==
  /\ call = [op |-> "step", action |-> ESCALATE]
  /\ phase = "DONE"
  /\ ret.kind = "ok" /\ ret.terminated
  /\ Cursor = 0
  /\ RecordedCount = 0

\* C7: a WAIT in a running episode advances the cursor by exactly 1, returns
\* reward 0.0 and leaves the recorded sequences unchanged.
C7_Wait ==
  [][(phase = "RUNNING" /\ IsStep(WAIT))
     => /\ ret'.kind = "ok"
        /\ ret'.reward = 0
        /\ Cursor' = Cursor + 1
        /\ Recorded' = Recorded]_vars

\* C7 witness: a WAIT after a DIAGNOSE left the one recorded diagnosis in
\* place and the episode running.
C7_Witness ==
  /\ call = [op |-> "step", action |-> WAIT]
  /\ phase = "RUNNING"
  /\ ret.kind = "ok" /\ ret.reward = 0
  /\ Cursor = 2
  /\ RecordedCount = 1

\* C8: in v1 a DIAGNOSE at cursor i (i < number of segments) scores against
\* the true label of segment i, appends exactly one entry to each of
\* predictions, confidences and timestamps with timestamp = i * 10 seconds,
\* and advances the cursor to i + 1.
C8_Diagnose ==
  [][(variant = "v1" /\ IsStep(DIAGNOSE) /\ current_patient # NoPatient
        /\ current_step < NumSegments(current_patient))
     => LET i == current_step
            k == Len(episode_predictions) + 1
            label_i == labels[PatientIndices(current_patient)[i + 1]]
            detail == episode_event_details'[k]
        IN  /\ Len(episode_predictions') = k
            /\ Len(episode_confidences') = Len(episode_confidences) + 1
            /\ Len(episode_timestamps') = Len(episode_timestamps) + 1
            /\ IsPrefix(episode_predictions, episode_predictions')
            /\ IsPrefix(episode_confidences, episode_confidences')
            /\ IsPrefix(episode_timestamps, episode_timestamps')
            /\ episode_timestamps'[Len(episode_timestamps')] = i * 10
            /\ detail.true_label = label_i
            /\ detail.correctness = 1
                 <=> ((label_i = 1) <=> (2 * detail.confidence > One))
            /\ ret'.kind = "ok"
            /\ ret'.reward = DiagnoseReward(detail.confidence, label_i)
            /\ current_step' = i + 1]_vars

\* C8 witness: after a WAIT, a DIAGNOSE at cursor 1 recorded timestamp 10 and
\* the label of segment 1, which differs from the label of segment 0.
C8_Witness ==
  /\ variant = "v1"
  /\ call = [op |-> "step", action |-> DIAGNOSE]
  /\ current_step = 2
  /\ episode_timestamps = <<10>>
  /\ episode_event_details[1].true_label = PatientLabels(current_patient)[2]
  /\ PatientLabels(current_patient)[2] # PatientLabels(current_patient)[1]

\* C9: for every confidence in [0, 1] and every true label in {0, 1} the
\* DIAGNOSE reward lies in [-0.5, 1.1] (floor -0.5, 1.0 + bonus 0.1).
C9_RewardBounds ==
  rw.done
    => /\ 0 - RewardOne <= 2 * rw.r1
       /\ 10 * rw.r1 <= 11 * RewardOne
       /\ 0 - RewardOne <= 2 * rw.m2
       /\ 10 * rw.m2 <= 11 * RewardOne

\* C9 witness: a correct call with confidence 1.0 on an apnea segment earns
\* the upper bound 1.1.
C9_Witness ==
  /\ rw.done
  /\ rw.c1 = One /\ rw.label = 1
  /\ 10 * rw.r1 = 11 * RewardOne

\* C10: for a fixed true label, of two correct calls the one with the higher
\* confidence earns strictly more, and of two incorrect calls the one with
\* the higher confidence earns strictly less.
C10_ConfidenceScaling ==
  (rw.done /\ rw.c1 < rw.c2)
    => /\ (Correctness(rw.c1, rw.label) = 1 /\ Correctness(rw.c2, rw.label) = 1)
            => rw.r1 < rw.r2
       /\ (Correctness(rw.c1, rw.label) = 0 /\ Correctness(rw.c2, rw.label) = 0)
            => rw.r1 > rw.r2

\* C10 witness: on a normal segment (label 0) the incorrect calls at 0.51 and
\* 0.95 were scored, and the one at 0.95 earned less.
C10_Witness ==
  /\ rw.done
  /\ rw.label = 0
  /\ rw.c1 = 5 * ConfGrid + 1
  /\ 2 * rw.c2 = 19 * ConfGrid
  /\ rw.r1 > rw.r2

\* C11: in v1, reset() called in any state of an environment that has data
\* sets the cursor to 0, empties the prediction, confidence, timestamp,
\* reward and event-detail lists, and returns the feature vector of segment 0
\* of the patient it selected.
C11_Reset ==
  [][(variant = "v1" /\ call'.op = "reset" /\ PatientList # {})
       => /\ ret'.kind = "ok"
          /\ current_patient' \in PatientList
          /\ current_step' = 0
          /\ episode_predictions' = <<>>
          /\ episode_confidences' = <<>>
          /\ episode_timestamps' = <<>>
          /\ episode_rewards' = <<>>
          /\ episode_event_details' = <<>>
          /\ ret'.obs = PatientFeatures(current_patient')[1]
          /\ phase' = "RUNNING"]_vars

\* C11 witness: reset() selected patient 2 and returned its first segment,
\* with the cursor at 0 and nothing recorded.
C11_Witness ==
  /\ variant = "v1"
  /\ call.op = "reset"
  /\ current_patient = 2
  /\ NumSegments(2) >= 2
  /\ ret.kind = "ok"
  /\ ret.obs = PatientFeatures(2)[1]
  /\ current_step = 0
  /\ episode_event_details = <<>>

\* the number of segments the environment was built with
TotalSegments == IF variant = "v1" THEN Len(labels) ELSE Len(m2_labels)
\* the number of segments of the episode under way
EpisodeSegments ==
  IF variant = "v1" THEN NumSegments(current_patient) ELSE M2NumSegments

\* C12: reset() of an environment without any segment fails with an error
\* and enters no running episode; every reset() that succeeds starts an
\* episode that has at least one segment ahead of the cursor.
C12_ResetWithoutSegments ==
  call.op = "reset"
    => IF TotalSegments = 0
       THEN ret.kind = "error" /\ phase # "RUNNING"
       ELSE /\ ret.kind = "ok"
            /\ phase = "RUNNING"
            /\ Cursor < EpisodeSegments

\* C12 witness: reset() of a model2 environment built from an empty
\* recording raised.
C12_Witness ==
  /\ variant = "model2"
  /\ call.op = "reset"
  /\ Len(m2_labels) = 0
  /\ ret.kind = "error"
  /\ phase = "READY"

\* C13: the observation step() returns is the feature vector at the new
\* cursor while the episode continues, and the zero vector whenever the step
\* ended the episode.
C13_ObservationAfterStep ==
  (call.op = "step" /\ ret.kind = "ok")
    => IF ret.terminated \/ ret.truncated
       THEN ret.obs = 0
       ELSE ret.obs = IF variant = "v1"
                      THEN PatientFeatures(current_patient)[current_step + 1]
                      ELSE M2Feature(current_segment_idx)

\* C14: the accuracy get_episode_metrics() reports is the fraction of the
\* predictions that equal the true label of the segment that was diagnosed.
C14_AccuracyOfDiagnosedSegments ==
  (variant = "v1" /\ call.op = "metrics" /\ ~ret.metrics.empty)
    => /\ ret.metrics.n_predictions = Len(episode_event_details)
       /\ ret.metrics.n_correct =
            Cardinality({j \in 1..Len(episode_event_details) :
                           episode_event_details[j].prediction
                             = episode_event_details[j].true_label})

C20_EventStepIsSegmentIndex ==
  (variant = "v1" /\ call.op = "metrics" /\ ~ret.metrics.empty)
    => /\ Len(ret.metrics.apnea_event_details) = ret.metrics.n_apnea_events
       /\ \A j \in 1..Len(ret.metrics.apnea_event_details) :
            ret.metrics.apnea_event_details[j].timestamp
              = ret.metrics.apnea_event_details[j].step * SegmentSeconds

\* the bucket of AHI = k / (n * 10 / 3600) = 360 k / n, in tenths
AhiBucket(n, k) ==
  IF 360 * k < 5 * n THEN 1
  ELSE IF 360 * k < 15 * n THEN 2
  ELSE IF 360 * k < 25 * n THEN 4
  ELSE IF 360 * k < 35 * n THEN 6
  ELSE IF 360 * k < 50 * n THEN 8
  ELSE 10

\* C16 as stated: for n >= 1 predictions of which k are apnea the severity
\* score is the bucket of AHI = k / (n * 10 / 3600): < 5 gives 0.1, < 15
\* gives 0.2, < 25 gives 0.4, < 35 gives 0.6, < 50 gives 0.8, else 1.0; in
\* particular k = 0 gives 0.1.
C16_SeverityBuckets ==
  (sv.done /\ sv.n >= 1) => sv.s1 = AhiBucket(sv.n, sv.k1)

\* C16: for n >= 1 predictions of which k >= 1 are apnea the severity score
\* is the bucket of AHI = k / (n * 10 / 3600): < 5 gives 0.1, < 15 gives 0.2,
\* < 25 gives 0.4, < 35 gives 0.6, < 50 gives 0.8, else 1.0; with k = 0, and
\* with no prediction at all, the score is 0.0.
C16_SeverityBucketsOrZero ==
  sv.done
    => /\ sv.k1 >= 1 => sv.s1 = AhiBucket(sv.n, sv.k1)
       /\ sv.k1 = 0 => sv.s1 = 0
       /\ sv.k2 >= 1 => sv.s2 = AhiBucket(sv.n, sv.k2)
       /\ sv.k2 = 0 => sv.s2 = 0

\* C16 witness: 20 apnea predictions of 100 (AHI 72) scored 1.0, and 7 of
\* 100 (AHI 25.2) scored 0.6.
C16_Witness ==
  /\ sv.done
  /\ sv.n = 100 /\ sv.k1 = 7 /\ sv.k2 = 20
  /\ sv.s1 = 6 /\ sv.s2 = 10

\* C17: for a fixed number of predictions the severity score never
\* decreases when the number of apnea predictions grows, and it lies in
\* [0, 1].
C17_SeverityMonotone ==
  sv.done
    => /\ sv.s1 <= sv.s2
       /\ 0 <= sv.s1 /\ sv.s1 <= 10
       /\ 0 <= sv.s2 /\ sv.s2 <= 10

\* C17 witness: of 100 predictions, 5 apnea predictions (AHI 18) scored 0.4
\* and 8 (AHI 28.8) scored 0.6.
C17_Witness ==
  /\ sv.done
  /\ sv.n = 100 /\ sv.k1 = 5 /\ sv.k2 = 8
  /\ sv.s1 = 4 /\ sv.s2 = 6

\* in every bin that holds a sample the mean confidence equals the mean
\* label
CalibratedInEveryBin(confidences, true_labels) ==
  \A b \in 0..(NBins - 1) :
    LET in_bin == {i \in 1..Len(confidences) : InBin(confidences[i], b)}
        conf == [i \in 1..Len(confidences) |->
                   IF i \in in_bin THEN confidences[i] ELSE 0]
        lab == [i \in 1..Len(confidences) |->
                  IF i \in in_bin THEN true_labels[i] ELSE 0]
    IN  SeqSum(conf) = One * SeqSum(lab)

\* C18: for a non-empty input calculate_ece returns a value in [0, 1], and
\* exactly 0 when in every non-empty bin the mean confidence equals the mean
\* label.
C18_EceBounds ==
  (ec.done /\ Len(ec.confidences) >= 1)
    => /\ ec.result.kind = "ok"
       /\ 0 <= ec.result.num
       /\ ec.result.num <= ec.result.den
       /\ CalibratedInEveryBin(ec.confidences, ec.true_labels)
            => ec.result.num = 0

\* C18 witness: three samples, two at confidence 0.5 of which one is apnea
\* and one at confidence 1.0 that is apnea, have ECE 0.
C18_Witness ==
  /\ ec.done
  /\ ec.confidences = <<5 * ConfGrid, One, 5 * ConfGrid>>
  /\ ec.true_labels = <<0, 1, 1>>
  /\ ec.result.kind = "ok"
  /\ ec.result.num = 0

\* C19: calculate_ece returns a value for every input, skipping the bins
\* that hold no sample, and returns 0.0 for an input of zero samples.
C19_EceOfNoSamples ==
  ec.done
    => /\ ec.result.kind = "ok"
       /\ Len(ec.confidences) = 0 => ec.result.num = 0

\* C21: in every state reached by reset() and any sequence of step() calls
\* the cursor satisfies 0 <= cursor <= number of segments of the current
\* patient.
C21_CursorInRange ==
  (phase # "READY") => (0 <= Cursor /\ Cursor <= EpisodeSegments)

\* C23: in v1 every recorded confidence lies in [0, 1], and the prediction
\* recorded at the same index is 1 if and only if that confidence is > 0.5.
C23_PredictionIsBinarization ==
  variant = "v1"
    => /\ Len(episode_predictions) = Len(episode_confidences)
       /\ \A j \in 1..Len(episode_confidences) :
            /\ 0 <= episode_confidences[j]
            /\ episode_confidences[j] <= One
            /\ episode_predictions[j] \in {0, 1}
            /\ episode_predictions[j] = 1 <=> 2 * episode_confidences[j] > One

\* C23 witness: a confidence just above 0.5 was recorded with prediction 1
\* and then a confidence of 0.4 with prediction 0.
C23_Witness ==
  /\ variant = "v1"
  /\ Len(episode_confidences) = 2
  /\ episode_confidences[1] = 5 * ConfGrid + 1
  /\ episode_predictions[1] = 1
  /\ episode_confidences[2] = 4 * ConfGrid
  /\ episode_predictions[2] = 0

\* the episode has been reset and no step has ended it, and in v1
\* max_episode_length >= 1
RunningEpisode ==
  /\ phase = "RUNNING"
  /\ variant = "v1" => max_episode_length >= 1
\* min(number of segments of the patient, max_episode_length); model2 has
\* no max_episode_length
EpisodeBound ==
  IF variant = "v1"
  THEN Min(NumSegments(current_patient), max_episode_length)
  ELSE M2NumSegments

\* C28: with max_episode_length >= 1, reset() puts the cursor at 0, every
\* step() of a running episode with an action of {WAIT, DIAGNOSE, ESCALATE}
\* either ends the episode or advances the cursor by exactly 1, and a running
\* episode's cursor is below min(number of segments, max_episode_length): the
\* episode ends within that many steps.
C28_EpisodeEnds ==
  /\ [](RunningEpisode => Cursor < EpisodeBound)
  /\ [][(call'.op = "reset" /\ ret'.kind = "ok") => Cursor' = 0]_vars
  /\ [][(RunningEpisode /\ call'.op = "step"
           /\ call'.action \in {WAIT, DIAGNOSE, ESCALATE})
          => /\ ret'.kind = "ok"
             /\ IF ret'.terminated \/ ret'.truncated
                THEN phase' = "DONE"
                ELSE phase' = "RUNNING" /\ Cursor' = Cursor + 1]_vars

\* C28 witness: a v1 episode on a patient of 3 segments with
\* max_episode_length 2 was truncated by its second step.
C28_Witness ==
  /\ variant = "v1"
  /\ phase = "DONE"
  /\ call.op = "step"
  /\ max_episode_length = 2
  /\ NumSegments(current_patient) = 3
  /\ current_step = 2
  /\ ret.truncated /\ ~ret.terminated

\* C29: with max_episode_length >= 1, no step() of a running episode
\* returns terminated and truncated together, whatever the action.
C29_TerminatedXorTruncated ==
  [][(RunningEpisode /\ call'.op = "step")
       => ~(ret'.terminated /\ ret'.truncated)]_vars

\* C29 witness: ESCALATE as the first step of a v1 episode with
\* max_episode_length 1 on a patient of 3 segments returned terminated and
\* not truncated.
C29_Witness ==
  /\ variant = "v1"
  /\ call = [op |-> "step", action |-> ESCALATE]
  /\ phase = "DONE"
  /\ max_episode_length = 1
  /\ NumSegments(current_patient) = 3
  /\ current_step = 0
  /\ ret.terminated /\ ~ret.truncated

\* the set of the elements of a list
Range(seq) == {seq[i] : i \in 1..Len(seq)}

C22_InstancesIndependent ==
  \A k \in 1..Len(iso.draws) : iso.draws[k].value = iso.draws[k].alone

\* C30: in SleepEnvironment time_step equals the number of step() calls
\* that returned since the last reset(), every step returns terminated False,
\* and truncated True exactly when time_step >= episode_length, so that an
\* episode of length L >= 1 is truncated first on its L-th step.
C30_SleepTruncation ==
  /\ [](time_step = step_calls.returned /\ episode_history = step_calls.returned)
  /\ [][(call'.op = "step" /\ ret'.kind = "ok")
          => /\ ~ret'.terminated
             /\ ret'.truncated <=> time_step' >= episode_length
             /\ time_step' = time_step + 1]_vars
  /\ []((episode_length >= 1 /\ step_calls.first_truncated # 0)
          => step_calls.first_truncated = episode_length)

\* C30 witness: the third step of an episode of length 3 returned truncated
\* and was the first to do so.
C30_Witness ==
  /\ variant = "sleep"
  /\ episode_length = 3
  /\ call.op = "step"
  /\ ret.kind = "ok" /\ ret.truncated /\ ~ret.terminated
  /\ time_step = 3
  /\ step_calls = [returned |-> 3, first_truncated |-> 3]

\* C25: once delete_user(u) has returned, and until u is created again,
\* u has no entry in user_profiles, trained_agents or training_status,
\* whatever the background tasks queued for u before the delete do.
C25_DeletedStaysDeleted ==
  \A u \in Users :
    task_log[u].deleted =>
      /\ u \notin user_profiles
      /\ u \notin trained_agents
      /\ u \notin DOMAIN training_status

\* C25 witness: a background task queued for user 1 before the delete
\* ran after it, and user 1 is still deleted.
C25_Witness ==
  /\ task_log # <<>>
  /\ task_log[1].deleted
  /\ call = [op |-> "train_agent_background", action |-> 1]
  /\ task_log[1].outcome = "raised"
  /\ background_tasks[1] = 0

\* C26: no two background training tasks of one user are queued or
\* running at the same time.
C26_OneTrainingPerUser ==
  \A u \in DOMAIN background_tasks : background_tasks[u] <= 1

\* C27: every background task ends with the user's status set to
\* completed or failed, never with an exception.
C27_TaskEndsReported ==
  \A u \in DOMAIN task_log :
    task_log[u].outcome \in {"none", "completed", "failed"}

====
